---- MODULE Spec2Model ----
(***************************************************************************)
(* Model of CustomMongoAggregator (src/custom_mdb_agg/aggregator.py): the  *)
(* hybrid pipeline execution engine that splits an aggregation pipeline    *)
(* into native runs delegated to MongoDB and custom stages evaluated       *)
(* locally, chaining temporary collections and dropping them at the end.   *)
(*                                                                         *)
(* Python values are tagged records [t, v]:                                *)
(*   "str"  v = sequence of one-character strings                          *)
(*   "int"  v = integer          "none" v = <<>>                           *)
(*   "bool" v = 1 for True, 0 for False (bool is a subclass of int: True   *)
(*              == 1, False == 0, isinstance(True, int))                   *)
(*   "oid"  v = serial number of a driver-generated ObjectId               *)
(*   "list" v = sequence of values                                         *)
(*   "dict" v = sequence of <<key, value>> pairs in insertion order, key a *)
(*              sequence of characters                                     *)
(*                                                                         *)
(* Specifications:                                                         *)
(*   Spec          one aggregate() call over the stage catalogue           *)
(*   SpecSubstr    one aggregate() call over stages that use $substr       *)
(*   SpecTwo       two aggregate() calls whose database steps interleave   *)
(*   SpecDetect    contains_custom_operator on nested stages               *)
(*   SpecRegistry  add_custom_operator / remove_custom_operator            *)
(*   SpecExpr      process_custom_stage on nested expressions              *)
(*   SpecProject   process_custom_stage on $project / $addFields fields    *)
(***************************************************************************)
EXTENDS Integers, Sequences, FiniteSets, TLC

VStr(s) == [t |-> "str", v |-> s]
VInt(n) == [t |-> "int", v |-> n]
VBool(b) == [t |-> "bool", v |-> IF b THEN 1 ELSE 0]
VNone == [t |-> "none", v |-> <<>>]
VList(items) == [t |-> "list", v |-> items]
VDict(pairs) == [t |-> "dict", v |-> pairs]

\* Names used by the pipelines of the model, spelled as Python strings.
OpProject == <<"$", "p", "r", "o", "j", "e", "c", "t">>
OpMatch == <<"$", "m", "a", "t", "c", "h">>
OpGroup == <<"$", "g", "r", "o", "u", "p">>
OpSort == <<"$", "s", "o", "r", "t">>
OpConcat == <<"$", "c", "o", "n", "c", "a", "t">>
OpPrompt == <<"$", "p", "r", "o", "m", "p", "t">>
OpAddFields == <<"$", "a", "d", "d", "F", "i", "e", "l", "d", "s">>
OpStrLenCP == <<"$", "s", "t", "r", "L", "e", "n", "C", "P">>
OpToUpper == <<"$", "t", "o", "U", "p", "p", "e", "r">>
OpToLower == <<"$", "t", "o", "L", "o", "w", "e", "r">>
OpSubstr == <<"$", "s", "u", "b", "s", "t", "r">>
FieldX == <<"x">>
FieldVal == <<"v", "a", "l">>
FieldId == <<"_", "i", "d">>
RefVal == <<"$", "v", "a", "l">>

\* ---------------------------------------------------------------- bounds
MaxDepth == 4
MaxPipeLen == 3

VARIABLES
  custom_operators,   \* self.custom_operators: operator name -> handler
  db,                 \* the database: collection name -> its documents, in order
  uuid_count,         \* number of uuid.uuid4() values drawn so far
  oid_count,          \* number of ObjectIds the driver has generated so far
  call,               \* per aggregate() invocation: its locals and position
  log,                \* history: the database operations and local stage
                      \* evaluations of the calls, in the order they happened
  det_stage,          \* the stage handed to contains_custom_operator
  det_pc,             \* "input" while the stage is built, "done" after the call
  det_result,         \* what contains_custom_operator returned
  ev_expr,            \* the expression handed to the local evaluator
  ev_stage,           \* the stage handed to process_custom_stage
  ev_docs,            \* the documents handed to process_custom_stage
  ev_pc,              \* "input" while the input is built, "done" after the call
  ev_result           \* what process_custom_stage returned or raised

vars == <<custom_operators, db, uuid_count, oid_count, call, log,
          det_stage, det_pc, det_result,
          ev_expr, ev_stage, ev_docs, ev_pc, ev_result>>
det_vars == <<det_stage, det_pc, det_result>>
ev_vars == <<ev_expr, ev_stage, ev_docs, ev_pc, ev_result>>

\* ------------------------------------------------- contains_custom_operator
RECURSIVE check_expr_nolist(_, _)
RECURSIVE check_items_nolist(_, _, _)
\* check_expr with the list branch (lines 69-72) left out.
check_items_nolist(pairs, i, ops) ==
  IF i > Len(pairs) THEN FALSE
  ELSE IF pairs[i][1] \in ops THEN TRUE
  ELSE IF pairs[i][2].t \in {"dict", "list"} /\ check_expr_nolist(pairs[i][2], ops) THEN TRUE
  ELSE check_items_nolist(pairs, i + 1, ops)

check_expr_nolist(expr, ops) ==
  IF expr.t = "dict" THEN check_items_nolist(expr.v, 1, ops)
  ELSE FALSE

RECURSIVE check_expr(_, _)
RECURSIVE check_dict_items(_, _, _)
RECURSIVE check_list_items(_, _, _)
\* for key, value in expr.items(): ... (early return on the first hit)
check_dict_items(pairs, i, ops) ==
  IF i > Len(pairs) THEN FALSE
  ELSE IF pairs[i][1] \in ops THEN TRUE
  ELSE IF pairs[i][2].t \in {"dict", "list"} /\ check_expr(pairs[i][2], ops) THEN TRUE
  ELSE check_dict_items(pairs, i + 1, ops)

\* for item in expr: if check_expr(item): return True
check_list_items(items, i, ops) ==
  IF i > Len(items) THEN FALSE
  ELSE IF check_expr(items[i], ops) THEN TRUE
  ELSE check_list_items(items, i + 1, ops)

check_expr(expr, ops) ==
  IF expr.t = "dict" THEN check_dict_items(expr.v, 1, ops)
  ELSE IF expr.t = "list" THEN check_list_items(expr.v, 1, ops)
  ELSE FALSE

contains_custom_operator(stage, registry) == check_expr(stage, DOMAIN registry)

\* ------------------------------------------------------ Python helpers
\* The outcome of a Python call: a value, or the exception it raised.
Ok(x) == [ok |-> TRUE, val |-> x]
Raise(e) == [ok |-> FALSE, err |-> e]

StartsWithDollar(s) == Len(s) > 0 /\ s[1] = "$"

\* dict: key in d, d[key], and d.get(key) for a str key (None when absent).
RECURSIVE dict_index(_, _, _)
dict_index(pairs, key, i) ==
  IF i > Len(pairs) THEN 0
  ELSE IF pairs[i][1] = key THEN i
  ELSE dict_index(pairs, key, i + 1)

dict_has(d, key) == dict_index(d.v, key, 1) # 0
dict_at(d, key) == d.v[dict_index(d.v, key, 1)][2]
dict_get(d, key) == IF dict_has(d, key) THEN dict_at(d, key) ELSE VNone

\* d[key] = value: replaces the value of an existing key in place, else appends.
dict_set(d, key, value) ==
  IF dict_has(d, key)
    THEN VDict([d.v EXCEPT ![dict_index(d.v, key, 1)] = <<key, value>>])
    ELSE VDict(Append(d.v, <<key, value>>))

\* field_path.split('.')
RECURSIVE split_dot(_, _, _)
split_dot(s, i, cur) ==
  IF i > Len(s) THEN <<cur>>
  ELSE IF s[i] = "." THEN <<cur>> \o split_dot(s, i + 1, <<>>)
  ELSE split_dot(s, i + 1, Append(cur, s[i]))

\* -------------------------------------------------------- get_field_value
RECURSIVE walk_fields(_, _, _)
walk_fields(value, fields, i) ==
  IF i > Len(fields) THEN value
  ELSE IF value.t = "dict" /\ dict_has(value, fields[i])
    THEN walk_fields(dict_at(value, fields[i]), fields, i + 1)
  ELSE VNone

get_field_value(doc, field_path) == walk_fields(doc, split_dot(field_path, 1, <<>>), 1)

\* ------------------------------------------------- str(), upper(), slices
Digits == <<"0", "1", "2", "3", "4", "5", "6", "7", "8", "9">>
LowerChars == <<"a", "b", "c", "d", "e", "f", "g", "h", "i", "j", "k", "l", "m",
                "n", "o", "p", "q", "r", "s", "t", "u", "v", "w", "x", "y", "z">>
UpperChars == <<"A", "B", "C", "D", "E", "F", "G", "H", "I", "J", "K", "L", "M",
                "N", "O", "P", "Q", "R", "S", "T", "U", "V", "W", "X", "Y", "Z">>

RECURSIVE char_index(_, _, _)
char_index(chars, c, i) ==
  IF i > Len(chars) THEN 0
  ELSE IF chars[i] = c THEN i
  ELSE char_index(chars, c, i + 1)

char_upper(c) ==
  LET i == char_index(LowerChars, c, 1) IN IF i = 0 THEN c ELSE UpperChars[i]
char_lower(c) ==
  LET i == char_index(UpperChars, c, 1) IN IF i = 0 THEN c ELSE LowerChars[i]
str_upper(s) == [i \in 1..Len(s) |-> char_upper(s[i])]
str_lower(s) == [i \in 1..Len(s) |-> char_lower(s[i])]

RECURSIVE nat_str(_)
nat_str(n) ==
  IF n < 10 THEN <<Digits[n + 1]>>
  ELSE Append(nat_str(n \div 10), Digits[(n % 10) + 1])
int_str(n) == IF n < 0 THEN <<"-">> \o nat_str(0 - n) ELSE nat_str(n)

\* str(x) and repr(x); a str is assumed to hold no quote or backslash.
RECURSIVE py_repr(_)
RECURSIVE join_reprs(_, _)
RECURSIVE join_items(_, _)
join_reprs(items, i) ==
  IF i > Len(items) THEN <<>>
  ELSE (IF i > 1 THEN <<",", " ">> ELSE <<>>) \o py_repr(items[i]) \o join_reprs(items, i + 1)
join_items(pairs, i) ==
  IF i > Len(pairs) THEN <<>>
  ELSE (IF i > 1 THEN <<",", " ">> ELSE <<>>)
       \o <<"'">> \o pairs[i][1] \o <<"'", ":", " ">> \o py_repr(pairs[i][2])
       \o join_items(pairs, i + 1)
py_repr(x) ==
  IF x.t = "str" THEN <<"'">> \o x.v \o <<"'">>
  ELSE IF x.t = "int" THEN int_str(x.v)
  ELSE IF x.t = "bool"
    THEN (IF x.v = 1 THEN <<"T", "r", "u", "e">> ELSE <<"F", "a", "l", "s", "e">>)
  ELSE IF x.t = "none" THEN <<"N", "o", "n", "e">>
  ELSE IF x.t = "oid"
    THEN <<"O", "b", "j", "e", "c", "t", "I", "d", "(", "'">> \o nat_str(x.v) \o <<"'", ")">>
  ELSE IF x.t = "list" THEN <<"[">> \o join_reprs(x.v, 1) \o <<"]">>
  ELSE <<"{">> \o join_items(x.v, 1) \o <<"}">>
py_str(x) == IF x.t = "str" THEN x.v ELSE py_repr(x)

\* seq[lo:hi] with Python's clipping and negative indices.
slice_bound(n, len) ==
  IF n < 0 THEN (IF n + len < 0 THEN 0 ELSE n + len)
  ELSE IF n > len THEN len ELSE n
py_slice(seq, lo, hi) ==
  SubSeq(seq, slice_bound(lo, Len(seq)) + 1, slice_bound(hi, Len(seq)))

\* What iterating over x yields (list items, characters of a str, keys of a dict).
py_iter(x) ==
  IF x.t = "list" THEN x.v
  ELSE IF x.t = "str" THEN [i \in 1..Len(x.v) |-> VStr(<<x.v[i]>>)]
  ELSE [i \in 1..Len(x.v) |-> VStr(x.v[i][1])]
HasLen(x) == x.t \in {"str", "list", "dict"}
\* isinstance(x, int)
IsInt(x) == x.t \in {"int", "bool"}

\* --------------------------------------- operators.py: prompt_operator
\* resp is what the ollama.chat call of this evaluation yields: the text of
\* the reply, or None when the call failed (the except branch, lines 52-54).
prompt_operator(doc, args, resp) ==
  IF ~HasLen(args) THEN Raise("TypeError")
  ELSE IF Len(args.v) # 2 THEN Raise("ValueError")
  ELSE IF args.t = "dict" THEN Raise("KeyError")
  ELSE LET field_name == py_iter(args)[1] IN
    IF field_name.t \in {"list", "dict"} THEN Raise("TypeError")
    ELSE LET field_value == IF field_name.t = "str" THEN dict_get(doc, field_name.v)
                                                    ELSE VNone
         IN IF field_value = VNone THEN Ok(VNone) ELSE Ok(resp)

\* A handler of the caller's own that returns what it was called with:
\* lambda doc, args: [doc, args]
echo_operator(doc, args) == Ok(VList(<<doc, args>>))

\* The handler called with a field reference already resolved.
call_handler_resolved(handler, doc, value, resp) ==
  LET arg == IF value.t = "str" /\ StartsWithDollar(value.v)
               THEN get_field_value(doc, Tail(value.v)) ELSE value
  IN CASE handler = "prompt_operator" -> prompt_operator(doc, arg, resp)
       [] handler = "echo_operator" -> echo_operator(doc, arg)

\* self.custom_operators[key](doc, value)
call_handler(handler, doc, value, resp) ==
  CASE handler = "prompt_operator" -> prompt_operator(doc, value, resp)
    [] handler = "echo_operator" -> echo_operator(doc, value)

\* ------------------------------------- process_expr / evaluate_operator
\* The registry consulted after the table of built-in operators.
in_custom_operators_after_builtins(key, registry) ==
  key \in DOMAIN registry /\ key \notin {OpConcat, OpStrLenCP, OpToUpper, OpToLower, OpSubstr}

\* if key in self.custom_operators:    (line 205, before any other test)
in_custom_operators(key, registry) == key \in DOMAIN registry

RECURSIVE process_expr(_, _, _, _)
RECURSIVE process_pairs(_, _, _, _, _, _)
RECURSIVE process_items(_, _, _, _, _, _)
RECURSIVE evaluate_operator(_, _, _, _, _)
RECURSIVE join_strs(_, _)

\* {k: self.process_expr(v, doc) for k, v in expr.items()}
process_pairs(pairs, i, acc, doc, registry, resp) ==
  IF i > Len(pairs) THEN Ok(VDict(acc))
  ELSE LET r == process_expr(pairs[i][2], doc, registry, resp) IN
    IF ~r.ok THEN r
    ELSE process_pairs(pairs, i + 1, Append(acc, <<pairs[i][1], r.val>>), doc, registry, resp)

\* [self.process_expr(item, doc) for item in expr]
process_items(items, i, acc, doc, registry, resp) ==
  IF i > Len(items) THEN Ok(VList(acc))
  ELSE LET r == process_expr(items[i], doc, registry, resp) IN
    IF ~r.ok THEN r
    ELSE process_items(items, i + 1, Append(acc, r.val), doc, registry, resp)

process_expr(expr, doc, registry, resp) ==
  IF expr.t = "dict" THEN
    IF Len(expr.v) = 1 THEN
      LET key == expr.v[1][1]
          value == expr.v[1][2]
      IN IF in_custom_operators(key, registry)
           THEN call_handler(registry[key], doc, value, resp)
         ELSE IF StartsWithDollar(key) THEN evaluate_operator(key, value, doc, registry, resp)
         ELSE LET r == process_expr(value, doc, registry, resp) IN
              IF r.ok THEN Ok(VDict(<< <<key, r.val>> >>)) ELSE r
    ELSE process_pairs(expr.v, 1, <<>>, doc, registry, resp)
  ELSE IF expr.t = "list" THEN process_items(expr.v, 1, <<>>, doc, registry, resp)
  ELSE IF expr.t = "str" /\ StartsWithDollar(expr.v)
    THEN Ok(get_field_value(doc, Tail(expr.v)))
  ELSE Ok(expr)

\* ''.join(str(part) for part in parts)
join_strs(parts, i) ==
  IF i > Len(parts) THEN <<>> ELSE py_str(parts[i]) \o join_strs(parts, i + 1)

\* evaluate_operator whose final else hands the evaluated argument back
\* instead of raising.
evaluate_operator_passthrough(operator, value, doc, registry, resp) ==
  LET r == process_expr(value, doc, registry, resp) IN
  IF ~r.ok THEN r
  ELSE IF operator = OpConcat THEN
    IF HasLen(r.val) THEN Ok(VStr(join_strs(py_iter(r.val), 1))) ELSE Raise("TypeError")
  ELSE IF operator = OpStrLenCP THEN
    IF HasLen(r.val) THEN Ok(VInt(Len(r.val.v))) ELSE Raise("TypeError")
  ELSE IF operator = OpToUpper THEN Ok(VStr(str_upper(py_str(r.val))))
  ELSE IF operator = OpToLower THEN Ok(VStr(str_lower(py_str(r.val))))
  ELSE IF operator = OpSubstr THEN
    IF ~HasLen(r.val) THEN Raise("TypeError")
    ELSE IF Len(r.val.v) # 3 THEN Raise("ValueError")
    ELSE LET args == py_iter(r.val) IN
      IF ~IsInt(args[2]) \/ ~IsInt(args[3]) \/ args[1].t \notin {"str", "list"}
        THEN Raise("TypeError")
      ELSE Ok([t |-> args[1].t,
               v |-> py_slice(args[1].v, args[2].v, args[2].v + args[3].v)])
  ELSE r

evaluate_operator(operator, value, doc, registry, resp) ==
  IF operator \notin {OpConcat, OpStrLenCP, OpToUpper, OpToLower, OpSubstr}
    THEN Raise("NotImplementedError")
  ELSE LET r == process_expr(value, doc, registry, resp) IN
    IF ~r.ok THEN r
    ELSE IF operator = OpConcat THEN
      IF HasLen(r.val) THEN Ok(VStr(join_strs(py_iter(r.val), 1))) ELSE Raise("TypeError")
    ELSE IF operator = OpStrLenCP THEN
      IF HasLen(r.val) THEN Ok(VInt(Len(r.val.v))) ELSE Raise("TypeError")
    ELSE IF operator = OpToUpper THEN Ok(VStr(str_upper(py_str(r.val))))
    ELSE IF operator = OpToLower THEN Ok(VStr(str_lower(py_str(r.val))))
    ELSE \* $substr
      IF ~HasLen(r.val) THEN Raise("TypeError")
      ELSE IF Len(r.val.v) # 3 THEN Raise("ValueError")
      ELSE LET args == py_iter(r.val)
               string == args[1]
               start == args[2]
               length == args[3]
           IN IF ~IsInt(start) \/ ~IsInt(length) \/ string.t \notin {"str", "list"}
                THEN Raise("TypeError")
              ELSE Ok([t |-> string.t,
                       v |-> py_slice(string.v, start.v, start.v + length.v)])

\* ------------------------------------------------- process_custom_stage
RECURSIVE project_fields(_, _, _, _, _, _)
RECURSIVE project_docs(_, _, _, _, _, _)
\* for key, value in expr.items(): ... (lines 179-185)
project_fields(pairs, i, new_doc, doc, registry, resp) ==
  IF i > Len(pairs) THEN Ok(new_doc)
  ELSE LET key == pairs[i][1]
           value == pairs[i][2]
       IN IF IsInt(value) /\ value.v = 1
            THEN project_fields(pairs, i + 1, dict_set(new_doc, key, dict_get(doc, key)),
                                doc, registry, resp)
          ELSE IF IsInt(value) /\ value.v = 0
            THEN project_fields(pairs, i + 1, new_doc, doc, registry, resp)
          ELSE LET r == process_expr(value, doc, registry, resp) IN
            IF ~r.ok THEN r
            ELSE project_fields(pairs, i + 1, dict_set(new_doc, key, r.val),
                                doc, registry, resp)

\* for doc in documents: ... processed_docs.append(new_doc)
project_docs(documents, d, acc, expr, registry, resps) ==
  IF d > Len(documents) THEN Ok(acc)
  ELSE IF expr.t # "dict" THEN Raise("AttributeError")
  ELSE LET r == project_fields(expr.v, 1, VDict(<<>>), documents[d], registry, resps[d]) IN
    IF ~r.ok THEN r
    ELSE project_docs(documents, d + 1, Append(acc, r.val), expr, registry, resps)

\* process_custom_stage without the test of the stage operator: the argument
\* of any stage is projected.
process_custom_stage_any_operator(documents, stage, registry, resps) ==
  IF stage.t # "dict" THEN Raise("AttributeError")
  ELSE IF Len(stage.v) = 0 THEN Raise("StopIteration")
  ELSE project_docs(documents, 1, <<>>, stage.v[1][2], registry, resps)

\* process_custom_stage as src/demo.py has it: $project alone is projected.
process_custom_stage_project_only(documents, stage, registry, resps) ==
  IF stage.t # "dict" THEN Raise("AttributeError")
  ELSE IF Len(stage.v) = 0 THEN Raise("StopIteration")
  ELSE IF stage.v[1][1] = OpProject
    THEN project_docs(documents, 1, <<>>, stage.v[1][2], registry, resps)
  ELSE Raise("NotImplementedError")

\* resps[d] is the reply ollama.chat gives while document d is evaluated.
process_custom_stage(documents, stage, registry, resps) ==
  IF stage.t # "dict" THEN Raise("AttributeError")
  ELSE IF Len(stage.v) = 0 THEN Raise("StopIteration")
  ELSE LET operator == stage.v[1][1]
           expr == stage.v[1][2]
       IN IF operator = OpProject \/ operator = OpAddFields
            THEN project_docs(documents, 1, <<>>, expr, registry, resps)
          ELSE Raise("NotImplementedError")

\* ------------------------------------------ the handlers that are called
\* The calls self.custom_operators[key](doc, value) that line 206 makes while
\* process_expr(expr, doc) runs, in the order they are made, as <<key, value>>:
\* the same branches as process_expr, and nothing after the first exception.
RECURSIVE handler_calls(_, _, _, _)
RECURSIVE calls_in_values(_, _, _, _, _)
calls_in_values(values, i, doc, registry, resp) ==
  IF i > Len(values) THEN <<>>
  ELSE handler_calls(values[i], doc, registry, resp)
         \o (IF process_expr(values[i], doc, registry, resp).ok
               THEN calls_in_values(values, i + 1, doc, registry, resp) ELSE <<>>)

handler_calls(expr, doc, registry, resp) ==
  IF expr.t = "dict" THEN
    IF Len(expr.v) = 1 THEN
      LET key == expr.v[1][1]
          value == expr.v[1][2]
      IN IF in_custom_operators(key, registry) THEN << <<key, value>> >>
         ELSE IF StartsWithDollar(key) THEN
           \* evaluate_operator: each branch of lines 232-248 evaluates the
           \* argument first, the else of line 250 does not
           IF key \in {OpConcat, OpStrLenCP, OpToUpper, OpToLower, OpSubstr}
             THEN handler_calls(value, doc, registry, resp) ELSE <<>>
         ELSE handler_calls(value, doc, registry, resp)
    ELSE calls_in_values([n \in 1..Len(expr.v) |-> expr.v[n][2]], 1, doc, registry, resp)
  ELSE IF expr.t = "list" THEN calls_in_values(expr.v, 1, doc, registry, resp)
  ELSE <<>>

\* The calls made while lines 179-185 build the new document of doc.
RECURSIVE project_calls(_, _, _, _, _)
project_calls(pairs, i, doc, registry, resp) ==
  IF i > Len(pairs) THEN <<>>
  ELSE LET value == pairs[i][2] IN
    IF IsInt(value) /\ (value.v = 1 \/ value.v = 0)
      THEN project_calls(pairs, i + 1, doc, registry, resp)
    ELSE handler_calls(value, doc, registry, resp)
           \o (IF process_expr(value, doc, registry, resp).ok
                 THEN project_calls(pairs, i + 1, doc, registry, resp) ELSE <<>>)

\* The calls made for each document, up to the document whose evaluation
\* raised.
RECURSIVE docs_calls(_, _, _, _, _)
docs_calls(documents, d, pairs, registry, resps) ==
  IF d > Len(documents) THEN <<>>
  ELSE <<project_calls(pairs, 1, documents[d], registry, resps[d])>>
         \o (IF project_fields(pairs, 1, VDict(<<>>), documents[d], registry, resps[d]).ok
               THEN docs_calls(documents, d + 1, pairs, registry, resps) ELSE <<>>)

\* The handler calls of process_custom_stage(documents, stage): one sequence
\* of calls for each document it came to.
process_custom_stage_calls(documents, stage, registry, resps) ==
  IF stage.t # "dict" \/ Len(stage.v) = 0 THEN <<>>
  ELSE LET operator == stage.v[1][1]
           expr == stage.v[1][2]
       IN IF (operator = OpProject \/ operator = OpAddFields) /\ expr.t = "dict"
            THEN docs_calls(documents, 1, expr.v, registry, resps)
          ELSE <<>>

\* ------------------------------------------------ the database (pymongo)
\* self.collection, the source collection; temporary collections are named by
\* the serial number of the uuid they were given (1, 2, ...).
Source == 0

PromptArgs == VList(<<VStr(<<"c">>), VStr(<<"s", "u", "m">>)>>)
Dataset ==
  << VDict(<< <<FieldId, VInt(1)>>, <<<<"c">>, VStr(<<"h", "i">>)>> >>),
     VDict(<< <<FieldId, VInt(2)>>, <<<<"c">>, VStr(<<"y", "o">>)>> >>) >>

\* Stages the modelled pipelines are made of.
StageMatch == VDict(<< <<OpMatch, VDict(<< <<<<"c">>, VStr(<<"h", "i">>)>> >>)>> >>)
StageSort == VDict(<< <<OpSort, VDict(<< <<<<"c">>, VInt(1)>> >>)>> >>)
StagePrompt ==
  VDict(<< <<OpProject,
             VDict(<< <<<<"c">>, VInt(1)>>,
                      <<<<"s">>, VDict(<< <<OpConcat,
                                            VList(<<VStr(<<"s", ":">>),
                                                    VDict(<< <<OpPrompt, PromptArgs>> >>)>>)>> >>)>>
                   >>)>> >>)
StageGroup ==
  VDict(<< <<OpGroup, VDict(<< <<FieldId, VDict(<< <<OpPrompt, PromptArgs>> >>)>> >>)>> >>)
StageBadArgs ==
  VDict(<< <<OpProject,
             VDict(<< <<<<"s">>, VDict(<< <<OpPrompt, VList(<<VStr(<<"c">>)>>)>> >>)>> >>)>> >>)
StageSameId ==
  VDict(<< <<OpProject, VDict(<< <<FieldId, VStr(<<"k">>)>>,
                                 <<<<"s">>, VDict(<< <<OpPrompt, PromptArgs>> >>)>> >>)>> >>)
StageCatalog ==
  {StageMatch, StageSort, StagePrompt, StageGroup, StageBadArgs, StageSameId}

Pipelines == UNION { [1..n -> StageCatalog] : n \in 0..MaxPipeLen }

\* What ollama.chat may answer: some text, or nothing (the call failed).
Responses == {VStr(<<"o", "k">>), VNone}

\* The server parses every stage of a run before it executes any: a $substr
\* that is not given exactly three arguments fails the whole run.
RECURSIVE server_rejects(_)
server_rejects(expr) ==
  IF expr.t = "dict"
    THEN \E i \in 1..Len(expr.v) :
           \/ /\ expr.v[i][1] = OpSubstr
              /\ expr.v[i][2].t = "list"
              /\ Len(expr.v[i][2].v) # 3
           \/ server_rejects(expr.v[i][2])
  ELSE IF expr.t = "list" THEN \E i \in 1..Len(expr.v) : server_rejects(expr.v[i])
  ELSE FALSE

\* list(collection.find()): a collection that was never written is empty.
find(name) == IF name \in DOMAIN db THEN db[name] ELSE <<>>

\* What the server may materialise for an engine-native run over docs: the
\* stages are MongoDB's to evaluate; here any prefix of the input.
NativeOutputs(docs) == { SubSeq(docs, 1, n) : n \in 0..Len(docs) }

\* insert_many gives every document that has no _id a new ObjectId.
assign_ids(docs, base) ==
  [i \in 1..Len(docs) |->
     IF dict_has(docs[i], FieldId) THEN docs[i]
     ELSE VDict(<< <<FieldId, [t |-> "oid", v |-> base + i]>> >> \o docs[i].v)]

\* Index of the first document whose _id repeats an earlier one (0: none).
RECURSIVE first_dup(_, _)
first_dup(docs, i) ==
  IF i > Len(docs) THEN 0
  ELSE IF \E j \in 1..(i - 1) : dict_at(docs[j], FieldId) = dict_at(docs[i], FieldId) THEN i
  ELSE first_dup(docs, i + 1)

\* An ordered insert_many either stores all documents, or fails having stored
\* a prefix: up to the duplicate key, or up to where the connection broke.
InsertOutcomes(docs) ==
  LET dup == first_dup(docs, 1) IN
  IF dup # 0 THEN { [ok |-> FALSE, err |-> "BulkWriteError", written |-> dup - 1] }
  ELSE { [ok |-> TRUE, err |-> "none", written |-> Len(docs)] }
       \cup { [ok |-> FALSE, err |-> "PyMongoError", written |-> n] : n \in 0..(Len(docs) - 1) }

store(name, docs) == [n \in DOMAIN db \cup {name} |-> IF n = name THEN docs ELSE db[n]]
remove(name) == [n \in DOMAIN db \ {name} |-> db[n]]

\* ------------------------------------------------------------ aggregate
\* The locals of one aggregate() invocation; pc is its position:
\*   idle -> scan -> (flush -> find -> insert -> scan)* -> final_flush ->
\*   final_find -> cleanup -> returned | raised
IdleCall ==
  [ pc |-> "idle", pipeline |-> <<>>, pos |-> 0, stage |-> VNone,
    sub_pipeline |-> <<>>, current_collection |-> Source, temp_collections |-> <<>>,
    documents |-> <<>>, results |-> <<>>, exc |-> "none", k |-> 0 ]

\* A temporary name built without the uuid suffix, for a prefix that is the
\* source collection's own name.
temp_collection_name_unsuffixed(serial) == Source

\* A temporary name made of the prefix and a constant: every call builds the
\* same name.
temp_collection_name_shared(serial) == Source + 1

\* f"{self.temp_prefix}_{uuid.uuid4().hex}": a name no earlier draw has given.
temp_collection_name(serial) == serial

\* temp_collections.append(current_collection)
track(temp_collections, coll) == Append(temp_collections, coll)

\* The buffer restarted at every native stage instead of extended.
buffer_last(sub_pipeline, stage) == <<stage>>

\* sub_pipeline.append(stage)
buffer(sub_pipeline, stage) == Append(sub_pipeline, stage)

\* A flush that does not test the buffer.
needs_flush_always(sub_pipeline) == TRUE

\* if sub_pipeline:    (lines 97 and 118)
needs_flush(sub_pipeline) == sub_pipeline # <<>>

\* The native run's collection tracked but not made the working collection.
flushed_keep_current(st, name) ==
  [st EXCEPT !.sub_pipeline = IF st.pc = "flush" THEN <<>> ELSE @,
             !.temp_collections = track(@, name),
             !.pc = IF st.pc = "flush" THEN "find" ELSE "final_find"]

\* The assignments after execute_sub_pipeline returned the collection `name`:
\* lines 98-100 inside the loop, lines 119-120 after it.
flushed(st, name) ==
  [st EXCEPT !.current_collection = name,
             !.sub_pipeline = IF st.pc = "flush" THEN <<>> ELSE @,
             !.temp_collections = track(@, name),
             !.pc = IF st.pc = "flush" THEN "find" ELSE "final_find"]

\* An except clause that logs and does not re-raise: the loop goes on.
abort_swallowed(st, e) == [st EXCEPT !.pc = "scan"]

\* except ...: log, raise; then the finally block: the exception e is pending
\* while the cleanup loop runs.
abort(st, e) == [st EXCEPT !.pc = "cleanup", !.exc = e, !.k = 0]

\* The end of the try block on success: the finally block runs next.
complete(st, results) == [st EXCEPT !.pc = "cleanup", !.results = results, !.k = 0]

\* A drop() that is not guarded: its exception leaves the finally block,
\* ends the loop and replaces what was pending.
drop_failed_escapes(st) ==
  [st EXCEPT !.exc = "PyMongoError", !.k = Len(st.temp_collections)]

\* except Exception around temp_col.drop(): a warning, nothing else changes.
drop_failed(st) == st

\* if temp_col != self.collection
may_drop(temp_col) == temp_col # Source

Record(entry) == log' = Append(log, entry)

\* aggregate(pipeline) is entered with one of the given pipelines: lines 86-91.
Enter(c, pipelines) ==
  /\ call[c].pc = "idle"
  /\ \E pipeline \in pipelines :
       call' = [call EXCEPT ![c] = [IdleCall EXCEPT !.pc = "scan", !.pipeline = pipeline]]
  /\ UNCHANGED <<custom_operators, db, uuid_count, oid_count, log>>
  /\ UNCHANGED <<det_vars, ev_vars>>

Aggregate(c) == Enter(c, Pipelines)

\* One iteration of "for stage in pipeline_iter" up to the first database call.
Scan(c) ==
  LET st == call[c] IN
  /\ st.pc = "scan"
  /\ st.pos < Len(st.pipeline)
  /\ LET stage == st.pipeline[st.pos + 1] IN
     IF ~contains_custom_operator(stage, custom_operators)
       THEN call' = [call EXCEPT ![c] = [st EXCEPT !.pos = st.pos + 1,
                                             !.sub_pipeline = buffer(st.sub_pipeline, stage)]]
       ELSE call' = [call EXCEPT ![c] = [st EXCEPT !.pos = st.pos + 1, !.stage = stage,
                       !.pc = IF needs_flush(st.sub_pipeline) THEN "flush" ELSE "find"]]
  /\ UNCHANGED <<custom_operators, db, uuid_count, oid_count, log>>
  /\ UNCHANGED <<det_vars, ev_vars>>

\* The loop is exhausted: lines 117-118.
ScanEnd(c) ==
  LET st == call[c] IN
  /\ st.pc = "scan"
  /\ st.pos = Len(st.pipeline)
  /\ call' = [call EXCEPT ![c] = [st EXCEPT
                !.pc = IF needs_flush(st.sub_pipeline) THEN "final_flush" ELSE "final_find"]]
  /\ UNCHANGED <<custom_operators, db, uuid_count, oid_count, log>>
  /\ UNCHANGED <<det_vars, ev_vars>>

\* execute_sub_pipeline(current_collection, sub_pipeline) and the assignments
\* that follow it (lines 98-100 in the loop, 119-120 after it).
execute_sub_pipeline(c) ==
  LET st == call[c]
      name == temp_collection_name(uuid_count + 1)
      input == find(st.current_collection)
  IN
  /\ st.pc \in {"flush", "final_flush"}
  /\ uuid_count' = uuid_count + 1
  /\ \/ \E out \in NativeOutputs(input) :
          /\ \A n \in 1..Len(st.sub_pipeline) : ~server_rejects(st.sub_pipeline[n])
          /\ db' = store(name, out)
          /\ Record([c |-> c, op |-> "aggregate", coll |-> st.current_collection,
                     out |-> name, stages |-> st.sub_pipeline, ok |-> TRUE,
                     err |-> "none", docs |-> out])
          /\ call' = [call EXCEPT ![c] = flushed(st, name)]
     \/ /\ db' = db
        /\ Record([c |-> c, op |-> "aggregate", coll |-> st.current_collection,
                   out |-> name, stages |-> st.sub_pipeline, ok |-> FALSE,
                   err |-> "PyMongoError", docs |-> <<>>])
        /\ call' = [call EXCEPT ![c] = abort(st, "PyMongoError")]
  /\ UNCHANGED <<custom_operators, oid_count>>
  /\ UNCHANGED <<det_vars, ev_vars>>

\* documents = list(current_collection.find());
\* documents = self.process_custom_stage(documents, stage)    (lines 104-107)
\* While one stage is evaluated the text-generation service either answers
\* every request or none.
CustomStage(c) ==
  LET st == call[c]
      docs == find(st.current_collection)
  IN
  /\ st.pc = "find"
  /\ \/ \E reply \in Responses :
          LET resps == [d \in 1..Len(docs) |-> reply]
              r == process_custom_stage(docs, st.stage, custom_operators, resps) IN
          /\ log' = log \o <<[c |-> c, op |-> "find", coll |-> st.current_collection,
                              ok |-> TRUE, err |-> "none", docs |-> docs],
                             [c |-> c, op |-> "process_custom_stage", stage |-> st.stage,
                              ok |-> r.ok, err |-> IF r.ok THEN "none" ELSE r.err]>>
          /\ call' = [call EXCEPT ![c] =
                        IF r.ok THEN [st EXCEPT !.documents = r.val, !.pc = "insert"]
                        ELSE abort(st, r.err)]
     \/ /\ Record([c |-> c, op |-> "find", coll |-> st.current_collection,
                   ok |-> FALSE, err |-> "PyMongoError", docs |-> <<>>])
        /\ call' = [call EXCEPT ![c] = abort(st, "PyMongoError")]
  /\ UNCHANGED <<custom_operators, db, uuid_count, oid_count>>
  /\ UNCHANGED <<det_vars, ev_vars>>

\* Lines 110-115: a new temporary collection receives the stage's output.
CustomInsert(c) ==
  LET st == call[c]
      name == temp_collection_name(uuid_count + 1)
      \* insert_many adds the generated _id to the documents it is given
      stored == assign_ids(st.documents, oid_count)
      adopted == [st EXCEPT !.current_collection = name,
                            !.temp_collections = track(@, name),
                            !.documents = stored,
                            !.pc = "scan"]
  IN
  /\ st.pc = "insert"
  /\ uuid_count' = uuid_count + 1
  /\ IF st.documents = <<>>
       THEN /\ call' = [call EXCEPT ![c] = adopted]
            /\ Record([c |-> c, op |-> "skip_insert", coll |-> name, ok |-> TRUE,
                       err |-> "none"])
            /\ UNCHANGED <<db, oid_count>>
       ELSE /\ oid_count' = oid_count + Len(st.documents)
            /\ \E o \in InsertOutcomes(stored) :
                 /\ db' = IF o.written > 0 THEN store(name, SubSeq(stored, 1, o.written))
                          ELSE db
                 /\ Record([c |-> c, op |-> "insert_many", coll |-> name, ok |-> o.ok,
                            err |-> o.err, docs |-> SubSeq(stored, 1, o.written)])
                 /\ call' = [call EXCEPT ![c] = IF o.ok THEN adopted ELSE abort(st, o.err)]
  /\ UNCHANGED custom_operators
  /\ UNCHANGED <<det_vars, ev_vars>>

\* results = list(current_collection.find())    (line 123)
FinalFind(c) ==
  LET st == call[c] IN
  /\ st.pc = "final_find"
  /\ \/ /\ Record([c |-> c, op |-> "find", coll |-> st.current_collection, ok |-> TRUE,
                   err |-> "none", docs |-> find(st.current_collection)])
        /\ call' = [call EXCEPT ![c] = complete(st, find(st.current_collection))]
     \/ /\ Record([c |-> c, op |-> "find", coll |-> st.current_collection, ok |-> FALSE,
                   err |-> "PyMongoError", docs |-> <<>>])
        /\ call' = [call EXCEPT ![c] = abort(st, "PyMongoError")]
  /\ UNCHANGED <<custom_operators, db, uuid_count, oid_count>>
  /\ UNCHANGED <<det_vars, ev_vars>>

\* The cleanup loop entered before line 123 has read the results.
CleanupDrop_before_read(c) ==
  LET st == call[c] IN
  /\ st.pc \in {"final_find", "cleanup"}
  /\ st.k < Len(st.temp_collections)
  /\ db' = remove(st.temp_collections[st.k + 1])
  /\ Record([c |-> c, op |-> "drop", coll |-> st.temp_collections[st.k + 1], ok |-> TRUE,
             err |-> "none"])
  /\ call' = [call EXCEPT ![c] = [st EXCEPT !.k = st.k + 1]]
  /\ UNCHANGED <<custom_operators, uuid_count, oid_count>>
  /\ UNCHANGED <<det_vars, ev_vars>>

\* One iteration of the finally block's loop (lines 133-138).
CleanupDrop(c) ==
  LET st == call[c] IN
  /\ st.pc = "cleanup"
  /\ st.k < Len(st.temp_collections)
  /\ LET temp_col == st.temp_collections[st.k + 1]
         next == [st EXCEPT !.k = st.k + 1]
     IN IF may_drop(temp_col)
          THEN \/ /\ db' = remove(temp_col)
                  /\ Record([c |-> c, op |-> "drop", coll |-> temp_col, ok |-> TRUE,
                             err |-> "none"])
                  /\ call' = [call EXCEPT ![c] = next]
               \/ /\ db' = db
                  /\ Record([c |-> c, op |-> "drop", coll |-> temp_col, ok |-> FALSE,
                             err |-> "PyMongoError"])
                  /\ call' = [call EXCEPT ![c] = drop_failed(next)]
          ELSE /\ call' = [call EXCEPT ![c] = next]
               /\ UNCHANGED <<db, log>>
  /\ UNCHANGED <<custom_operators, uuid_count, oid_count>>
  /\ UNCHANGED <<det_vars, ev_vars>>

\* The finally block is done: the pending exception propagates, or line 140
\* returns results.
Finish(c) ==
  LET st == call[c] IN
  /\ st.pc = "cleanup"
  /\ st.k = Len(st.temp_collections)
  /\ call' = [call EXCEPT ![c] = [st EXCEPT !.pc = IF st.exc = "none" THEN "returned"
                                                    ELSE "raised"]]
  /\ UNCHANGED <<custom_operators, db, uuid_count, oid_count, log>>
  /\ UNCHANGED <<det_vars, ev_vars>>

\* One aggregate() call per behaviour.
Calls == {1}

Init ==
  /\ custom_operators = [n \in {OpPrompt} |-> "prompt_operator"]
  /\ db = [n \in {Source} |-> Dataset]
  /\ uuid_count = 0
  /\ oid_count = 0
  /\ call = [c \in Calls |-> IdleCall]
  /\ log = <<>>
  /\ det_stage = VNone
  /\ det_pc = "off"
  /\ det_result = FALSE
  /\ ev_expr = VNone
  /\ ev_stage = VNone
  /\ ev_docs = <<>>
  /\ ev_pc = "off"
  /\ ev_result = VNone

Next ==
  \E c \in Calls :
    \/ Aggregate(c)
    \/ Scan(c)
    \/ ScanEnd(c)
    \/ execute_sub_pipeline(c)
    \/ CustomStage(c)
    \/ CustomInsert(c)
    \/ FinalFind(c)
    \/ CleanupDrop(c)
    \/ Finish(c)

Spec == Init /\ [][Next]_vars

\* ------------------------------------ calls on pipelines that use $substr
SubstrShort == VDict(<< <<OpSubstr, VList(<<VStr(<<"$", "c">>), VInt(0)>>)>> >>)
\* {$project: {x: {$substr: ["$c", 0]}}}: no registered operator in it.
StageSubstr == VDict(<< <<OpProject, VDict(<< <<FieldX, SubstrShort>> >>)>> >>)
\* The same projection next to a field that uses the registered operator.
StageSubstrPrompt ==
  VDict(<< <<OpProject,
             VDict(<< <<FieldX, SubstrShort>>,
                      <<<<"s">>, VDict(<< <<OpPrompt, PromptArgs>> >>)>> >>)>> >>)
SubstrCatalog == {StageMatch, StagePrompt, StageSubstr, StageSubstrPrompt}
SubstrPipelines == UNION { [1..n -> SubstrCatalog] : n \in 0..MaxPipeLen }

AggregateSubstr(c) == Enter(c, SubstrPipelines)

SubstrNext ==
  \E c \in Calls :
    \/ AggregateSubstr(c)
    \/ Scan(c)
    \/ ScanEnd(c)
    \/ execute_sub_pipeline(c)
    \/ CustomStage(c)
    \/ CustomInsert(c)
    \/ FinalFind(c)
    \/ CleanupDrop(c)
    \/ Finish(c)

SpecSubstr == Init /\ [][SubstrNext]_vars

\* ------------------------------------------ two calls on the same engine
\* Two aggregate() invocations on one CustomMongoAggregator whose steps
\* interleave at the database operations.
TwoCalls == {1, 2}
TwoPipelines == { <<StagePrompt>>, <<StageMatch>> }

TwoInit ==
  /\ custom_operators = [n \in {OpPrompt} |-> "prompt_operator"]
  /\ db = [n \in {Source} |-> Dataset]
  /\ uuid_count = 0
  /\ oid_count = 0
  /\ call = [c \in TwoCalls |-> IdleCall]
  /\ log = <<>>
  /\ det_stage = VNone
  /\ det_pc = "off"
  /\ det_result = FALSE
  /\ ev_expr = VNone
  /\ ev_stage = VNone
  /\ ev_docs = <<>>
  /\ ev_pc = "off"
  /\ ev_result = VNone

AggregateTwo(c) == Enter(c, TwoPipelines)

TwoNext ==
  \E c \in TwoCalls :
    \/ AggregateTwo(c)
    \/ Scan(c)
    \/ ScanEnd(c)
    \/ execute_sub_pipeline(c)
    \/ CustomStage(c)
    \/ CustomInsert(c)
    \/ FinalFind(c)
    \/ CleanupDrop(c)
    \/ Finish(c)

SpecTwo == TwoInit /\ [][TwoNext]_vars

\* ------------------------------------------- detector: inputs and the call
RECURSIVE Depth(_)
RECURSIVE MaxDepthOf(_, _)
MaxDepthOf(items, i) ==
  IF i > Len(items) THEN 0
  ELSE LET d == Depth(items[i])
           r == MaxDepthOf(items, i + 1)
       IN IF d > r THEN d ELSE r

Depth(e) ==
  IF e.t = "dict" THEN 1 + MaxDepthOf([i \in 1..Len(e.v) |-> e.v[i][2]], 1)
  ELSE IF e.t = "list" THEN 1 + MaxDepthOf(e.v, 1)
  ELSE 0

DetKeys == {OpProject, OpConcat, OpPrompt}
DetRegistries ==
  { <<>>,
    [n \in {OpPrompt} |-> "prompt_operator"],
    [n \in {OpPrompt, OpConcat} |-> "prompt_operator"] }

DetInit ==
  /\ custom_operators \in DetRegistries
  /\ det_stage = VStr(RefVal)
  /\ det_pc = "input"
  /\ det_result = FALSE
  /\ db = <<>>
  /\ uuid_count = 0
  /\ oid_count = 0
  /\ call = <<>>
  /\ log = <<>>
  /\ ev_expr = VNone
  /\ ev_stage = VNone
  /\ ev_docs = <<>>
  /\ ev_pc = "off"
  /\ ev_result = VNone

\* The stage under construction becomes the value of key k of a new mapping,
\* alone or after a plain sibling field.
DetWrapDict ==
  /\ det_pc = "input"
  /\ Depth(det_stage) < MaxDepth
  /\ \E k \in DetKeys, sibling \in BOOLEAN :
       det_stage' = VDict(IF sibling THEN << <<FieldX, VInt(1)>>, <<k, det_stage>> >>
                                     ELSE << <<k, det_stage>> >>)
  /\ UNCHANGED <<custom_operators, det_pc, det_result>>
  /\ UNCHANGED <<db, uuid_count, oid_count, call, log>>
  /\ UNCHANGED ev_vars

\* The stage under construction becomes an element of a new list.
DetWrapList ==
  /\ det_pc = "input"
  /\ Depth(det_stage) < MaxDepth
  /\ \E sibling \in BOOLEAN :
       det_stage' = VList(IF sibling THEN <<VInt(1), det_stage>> ELSE <<det_stage>>)
  /\ UNCHANGED <<custom_operators, det_pc, det_result>>
  /\ UNCHANGED <<db, uuid_count, oid_count, call, log>>
  /\ UNCHANGED ev_vars

DetCall ==
  /\ det_pc = "input"
  /\ det_result' = contains_custom_operator(det_stage, custom_operators)
  /\ det_pc' = "done"
  /\ UNCHANGED <<custom_operators, det_stage>>
  /\ UNCHANGED <<db, uuid_count, oid_count, call, log>>
  /\ UNCHANGED ev_vars

DetNext == DetWrapDict \/ DetWrapList \/ DetCall

SpecDetect == DetInit /\ [][DetNext]_vars

\* Every mapping key that occurs anywhere in the tree.
RECURSIVE AllKeys(_)
AllKeys(e) ==
  IF e.t = "dict"
    THEN { e.v[i][1] : i \in 1..Len(e.v) } \cup UNION { AllKeys(e.v[i][2]) : i \in 1..Len(e.v) }
  ELSE IF e.t = "list" THEN UNION { AllKeys(e.v[i]) : i \in 1..Len(e.v) }
  ELSE {}

\* C10: contains_custom_operator(stage) is true exactly when some registered
\* operator name is a mapping key somewhere in the stage's tree, at any depth,
\* inside lists, nested documents and arguments of built-in operators.
C10_DetectorCorrect ==
  det_pc = "done" =>
    (det_result <=> (AllKeys(det_stage) \cap DOMAIN custom_operators # {}))

\* A registered key found below a list inside a built-in operator's argument,
\* none of the enclosing keys being registered.
C10_Witness ==
  /\ det_pc = "done"
  /\ det_result
  /\ det_stage.t = "dict"
  /\ Depth(det_stage) = MaxDepth
  /\ \A i \in 1..Len(det_stage.v) : det_stage.v[i][1] \notin DOMAIN custom_operators
  /\ \E i \in 1..Len(det_stage.v) :
       /\ det_stage.v[i][2].t = "dict"
       /\ \E j \in 1..Len(det_stage.v[i][2].v) :
            /\ det_stage.v[i][2].v[j][1] = OpConcat
            /\ det_stage.v[i][2].v[j][2].t = "list"

\* ------------------------------------------------ the operator registry
\* The handler stored before the name is looked at.
add_custom_operator_unchecked(registry, name, func) ==
  [ ok |-> StartsWithDollar(name),
    err |-> IF StartsWithDollar(name) THEN "none" ELSE "ValueError",
    registry |-> [n \in DOMAIN registry \cup {name} |->
                    IF n = name THEN func ELSE registry[n]] ]

\* add_custom_operator(name, func): the outcome and self.custom_operators
\* after the call.
add_custom_operator(registry, name, func) ==
  IF ~StartsWithDollar(name)
    THEN [ok |-> FALSE, err |-> "ValueError", registry |-> registry]
  ELSE [ok |-> TRUE, err |-> "none",
        registry |-> [n \in DOMAIN registry \cup {name} |->
                        IF n = name THEN func ELSE registry[n]]]

\* del self.custom_operators[name] without the membership test.
remove_custom_operator_unguarded(registry, name) ==
  IF name \in DOMAIN registry
    THEN [ok |-> TRUE, err |-> "none",
          registry |-> [n \in DOMAIN registry \ {name} |-> registry[n]]]
  ELSE [ok |-> FALSE, err |-> "KeyError", registry |-> registry]

\* remove_custom_operator(name)
remove_custom_operator(registry, name) ==
  IF name \in DOMAIN registry
    THEN [ok |-> TRUE, err |-> "none",
          registry |-> [n \in DOMAIN registry \ {name} |-> registry[n]]]
  ELSE [ok |-> TRUE, err |-> "none", registry |-> registry]

\* self.custom_operators.get(name)
lookup(registry, name) == IF name \in DOMAIN registry THEN registry[name] ELSE "absent"

\* How many registry calls one behaviour makes.
MaxRegOps == 4

\* Names a caller may pass: two well-formed ones, one without the prefix, the
\* empty string.
RegNames == {OpPrompt, OpConcat, <<"p", "r", "o", "m", "p", "t">>, <<>>}
RegHandlers == {"prompt_operator", "echo_operator"}

RegInit ==
  /\ custom_operators = <<>>
  /\ log = <<>>
  /\ db = <<>>
  /\ uuid_count = 0
  /\ oid_count = 0
  /\ call = <<>>
  /\ det_stage = VNone
  /\ det_pc = "off"
  /\ det_result = FALSE
  /\ ev_expr = VNone
  /\ ev_stage = VNone
  /\ ev_docs = <<>>
  /\ ev_pc = "off"
  /\ ev_result = VNone

Register ==
  /\ Len(log) < MaxRegOps
  /\ \E name \in RegNames, func \in RegHandlers :
       LET r == add_custom_operator(custom_operators, name, func) IN
       /\ custom_operators' = r.registry
       /\ log' = Append(log, [op |-> "add_custom_operator", name |-> name, func |-> func,
                              ok |-> r.ok, err |-> r.err, before |-> custom_operators])
  /\ UNCHANGED <<db, uuid_count, oid_count, call>>
  /\ UNCHANGED <<det_vars, ev_vars>>

Unregister ==
  /\ Len(log) < MaxRegOps
  /\ \E name \in RegNames :
       LET r == remove_custom_operator(custom_operators, name) IN
       /\ custom_operators' = r.registry
       /\ log' = Append(log, [op |-> "remove_custom_operator", name |-> name,
                              func |-> "none", ok |-> r.ok, err |-> r.err,
                              before |-> custom_operators])
  /\ UNCHANGED <<db, uuid_count, oid_count, call>>
  /\ UNCHANGED <<det_vars, ev_vars>>

RegNext == Register \/ Unregister

SpecRegistry == RegInit /\ [][RegNext]_vars

\* self.custom_operators right after the i-th registry call.
RegAfter(i) == IF i < Len(log) THEN log[i + 1].before ELSE custom_operators

\* ------------------------------------- local evaluation: inputs and calls
OpFoo == <<"$", "f", "o", "o">>
FieldC == <<"c">>
FieldM == <<"m">>
FieldS == <<"s">>
FieldP == <<"p">>

\* Documents as find() returns them: one with the field c, one without.
EvDocFull == VDict(<< <<FieldId, VInt(1)>>, <<FieldC, VStr(<<"h", "i">>)>> >>)
EvDocBare == VDict(<< <<FieldId, VInt(2)>> >>)
EvDatasets == { <<EvDocFull>>, <<EvDocBare>>, <<EvDocFull, EvDocBare>> }

\* Keys an expression may use: a registered name, a built-in that may also be
\* registered, a '$' name that is neither, a plain field name.
EvKeys == {OpPrompt, OpConcat, OpFoo, FieldX}
EvRegistries ==
  { [n \in {OpPrompt} |-> "prompt_operator"],
    [n \in {OpPrompt} |-> "echo_operator"],
    [n \in {OpPrompt, OpConcat} |-> "echo_operator"] }

\* The stage that projects the expression as field s next to a field p that
\* uses the registered operator, so that aggregate evaluates the stage locally.
EvStageOf(expr) ==
  VDict(<< <<OpProject, VDict(<< <<FieldS, expr>>,
                                 <<FieldP, VDict(<< <<OpPrompt, PromptArgs>> >>)>> >>)>> >>)

\* The nesting depth of the stage's field s: the expression below the stage
\* mapping and the projection mapping.
EvDepth(expr) == Depth(expr) + 2

EvExprInit ==
  /\ custom_operators \in EvRegistries
  /\ ev_expr \in {VStr(<<"$", "c">>), VStr(<<"x">>)}
  /\ ev_stage = VNone
  /\ ev_docs \in EvDatasets
  /\ ev_pc = "input"
  /\ ev_result = VNone
  /\ db = <<>>
  /\ uuid_count = 0
  /\ oid_count = 0
  /\ call = <<>>
  /\ log = <<>>
  /\ det_stage = VNone
  /\ det_pc = "off"
  /\ det_result = FALSE

\* The expression becomes the value of key k of a new mapping, alone or after
\* a sibling key.
EvWrapDict ==
  /\ ev_pc = "input"
  /\ EvDepth(ev_expr) < MaxDepth
  /\ \E k \in EvKeys, sibling \in BOOLEAN :
       ev_expr' = VDict(IF sibling THEN << <<FieldM, VStr(<<"$", "c">>)>>, <<k, ev_expr>> >>
                                   ELSE << <<k, ev_expr>> >>)
  /\ UNCHANGED <<custom_operators, ev_stage, ev_docs, ev_pc, ev_result>>
  /\ UNCHANGED <<db, uuid_count, oid_count, call, log>>
  /\ UNCHANGED det_vars

\* The expression becomes an element of a new list.
EvWrapList ==
  /\ ev_pc = "input"
  /\ EvDepth(ev_expr) < MaxDepth
  /\ \E sibling \in BOOLEAN :
       ev_expr' = VList(IF sibling THEN <<VStr(<<"x">>), ev_expr>> ELSE <<ev_expr>>)
  /\ UNCHANGED <<custom_operators, ev_stage, ev_docs, ev_pc, ev_result>>
  /\ UNCHANGED <<db, uuid_count, oid_count, call, log>>
  /\ UNCHANGED det_vars

\* aggregate finds the stage custom and hands it to process_custom_stage.
EvEvaluate ==
  /\ ev_pc = "input"
  /\ contains_custom_operator(EvStageOf(ev_expr), custom_operators)
  /\ \E reply \in Responses :
       /\ ev_stage' = EvStageOf(ev_expr)
       /\ ev_result' =
            [ reply |-> reply,
              out |-> process_custom_stage(ev_docs, EvStageOf(ev_expr), custom_operators,
                                           [d \in 1..Len(ev_docs) |-> reply]),
              calls |-> process_custom_stage_calls(ev_docs, EvStageOf(ev_expr), custom_operators,
                                                   [d \in 1..Len(ev_docs) |-> reply]) ]
  /\ ev_pc' = "done"
  /\ UNCHANGED <<custom_operators, ev_expr, ev_docs>>
  /\ UNCHANGED <<db, uuid_count, oid_count, call, log>>
  /\ UNCHANGED det_vars

EvExprNext == EvWrapDict \/ EvWrapList \/ EvEvaluate

SpecExpr == EvExprInit /\ [][EvExprNext]_vars

\* ------------------------------- projection stages: inputs and the call
\* How many fields a modelled projection names.
MaxFields == 2

ProjFields == {FieldId, FieldC, FieldM, FieldS}
\* The inclusion and exclusion markers, a field reference, a custom operator.
ProjValues ==
  { VInt(1), VBool(TRUE), VInt(0), VBool(FALSE), VStr(<<"$", "c">>),
    VDict(<< <<OpPrompt, PromptArgs>> >>) }

ProjInit ==
  /\ custom_operators = [n \in {OpPrompt} |-> "prompt_operator"]
  /\ ev_expr = VDict(<<>>)
  /\ ev_stage = VNone
  /\ ev_docs \in EvDatasets
  /\ ev_pc = "input"
  /\ ev_result = VNone
  /\ db = <<>>
  /\ uuid_count = 0
  /\ oid_count = 0
  /\ call = <<>>
  /\ log = <<>>
  /\ det_stage = VNone
  /\ det_pc = "off"
  /\ det_result = FALSE

\* The projection names one more field.
ProjAddField ==
  /\ ev_pc = "input"
  /\ Len(ev_expr.v) < MaxFields
  /\ \E key \in ProjFields, value \in ProjValues :
       /\ ~dict_has(ev_expr, key)
       /\ ev_expr' = dict_set(ev_expr, key, value)
  /\ UNCHANGED <<custom_operators, ev_stage, ev_docs, ev_pc, ev_result>>
  /\ UNCHANGED <<db, uuid_count, oid_count, call, log>>
  /\ UNCHANGED det_vars

\* aggregate finds the $project or $addFields stage custom and hands it to
\* process_custom_stage.
ProjEvaluate ==
  /\ ev_pc = "input"
  /\ \E operator \in {OpProject, OpAddFields}, reply \in Responses :
       LET stage == VDict(<< <<operator, ev_expr>> >>) IN
       /\ contains_custom_operator(stage, custom_operators)
       /\ ev_stage' = stage
       /\ ev_result' =
            [ reply |-> reply,
              out |-> process_custom_stage(ev_docs, stage, custom_operators,
                                           [d \in 1..Len(ev_docs) |-> reply]) ]
  /\ ev_pc' = "done"
  /\ UNCHANGED <<custom_operators, ev_expr, ev_docs>>
  /\ UNCHANGED <<db, uuid_count, oid_count, call, log>>
  /\ UNCHANGED det_vars

ProjNext == ProjAddField \/ ProjEvaluate

SpecProject == ProjInit /\ [][ProjNext]_vars

\* ------------------------------------------------- history of one call
Range(seq) == { seq[i] : i \in 1..Len(seq) }
Finished(c) == call[c].pc \in {"returned", "raised"}
EntriesOf(c) == { i \in 1..Len(log) : log[i].c = c }
\* The steps of call c that failed, the drops of the cleanup loop aside.
Failures(c) == { i \in EntriesOf(c) : log[i].op # "drop" /\ ~log[i].ok }
\* The collections the cleanup loop of call c tried to drop, in order.
DropsOf(c) ==
  LET drops == SelectSeq(log, LAMBDA e : e.c = c /\ e.op = "drop")
  IN [i \in 1..Len(drops) |-> drops[i].coll]
DropFailed(c) == \E i \in EntriesOf(c) : log[i].op = "drop" /\ ~log[i].ok
\* The collections call c has brought into existence in the database.
Materialised(c) ==
  { log[i].out : i \in { j \in EntriesOf(c) : log[j].op = "aggregate" /\ log[j].ok } }
  \cup { log[i].coll : i \in { j \in EntriesOf(c) : log[j].op = "insert_many"
                                                   /\ log[j].docs # <<>> } }

\* C1: after an aggregate call has returned or raised, whichever step failed,
\* no collection but the source collection exists (stated for the runs in
\* which every drop of the cleanup loop succeeded).
C1_OnlySourceRemains ==
  \A c \in Calls : (Finished(c) /\ ~DropFailed(c)) => DOMAIN db = {Source}

\* C2: the source collection is only read: it keeps its documents, it is never
\* the target of an insert or of a native run's $out, never tracked as a
\* checkpoint and never dropped.
C2_SourceReadOnly ==
  /\ Source \in DOMAIN db
  /\ db[Source] = Dataset
  /\ \A i \in 1..Len(log) :
       /\ log[i].op \in {"insert_many", "skip_insert", "drop"} => log[i].coll # Source
       /\ log[i].op = "aggregate" => log[i].out # Source
  /\ \A c \in Calls : Source \notin Range(call[c].temp_collections)

\* A finished call that ran a native run, wrote a custom stage's output and
\* dropped a collection.
C2_Witness ==
  \E c \in Calls :
    /\ Finished(c)
    /\ \E i \in EntriesOf(c) : log[i].op = "aggregate" /\ log[i].ok
    /\ \E i \in EntriesOf(c) : log[i].op = "insert_many" /\ log[i].ok
    /\ \E i \in EntriesOf(c) : log[i].op = "drop" /\ log[i].ok

\* C3: every collection a call has created is in its temp_collections from
\* the moment it exists, and temp_collections is in creation order.
C3_TrackedFromCreation ==
  \A c \in Calls :
    /\ Materialised(c) \subseteq Range(call[c].temp_collections)
    /\ \A i, j \in 1..Len(call[c].temp_collections) :
         i < j => call[c].temp_collections[i] < call[c].temp_collections[j]

\* C4: the first failing step ends the processing: nothing but the drops of
\* the cleanup loop follows it, the cleanup loop visits every tracked
\* collection, and the call raises that step's own error and returns nothing;
\* a call with no failing step returns.
C4_FirstFailureAborts ==
  \A c \in Calls :
    /\ \A i \in Failures(c) :
         /\ \A j \in EntriesOf(c) : j > i => log[j].op = "drop"
         /\ call[c].pc \in {"cleanup", "raised"}
         /\ call[c].exc = log[i].err
         /\ call[c].results = <<>>
    /\ call[c].pc = "raised" =>
         /\ Cardinality(Failures(c)) = 1
         /\ DropsOf(c) = call[c].temp_collections
    /\ call[c].pc = "returned" => Failures(c) = {}

\* A call that raised the error of a custom stage's evaluation after a native
\* run had been flushed, with stages left unprocessed.
C4_Witness ==
  \E c \in Calls :
    /\ call[c].pc = "raised"
    /\ call[c].exc = "ValueError"
    /\ call[c].pos < Len(call[c].pipeline)
    /\ call[c].temp_collections # <<>>

\* C5: a drop that fails changes nothing else: the loop still tries every
\* tracked collection, a run that succeeded still returns the documents of
\* its final read, a run that failed still raises its first failure.
C5_DropFailureHarmless ==
  \A c \in Calls :
    (Finished(c) /\ DropFailed(c)) =>
      /\ DropsOf(c) = call[c].temp_collections
      /\ Failures(c) = {} =>
           /\ call[c].pc = "returned"
           /\ call[c].exc = "none"
           /\ \E i \in EntriesOf(c) :
                /\ log[i].op = "find"
                /\ \A j \in EntriesOf(c) : j > i => log[j].op = "drop"
                /\ call[c].results = log[i].docs
      /\ Failures(c) # {} =>
           /\ call[c].pc = "raised"
           /\ \A i \in Failures(c) : call[c].exc = log[i].err

\* A call that returned although its first drop failed, the second succeeding.
C5_Witness ==
  \E c \in Calls :
    /\ call[c].pc = "returned"
    /\ \E i, j \in EntriesOf(c) :
         /\ i < j
         /\ log[i].op = "drop" /\ ~log[i].ok
         /\ log[j].op = "drop" /\ log[j].ok

\* ------------------------------------------- the shape of a pipeline
\* A custom stage, by the glossary: some registered name is a key of its tree.
IsCustom(stage) == AllKeys(stage) \cap DOMAIN custom_operators # {}
CustomStages(p) == { i \in 1..Len(p) : IsCustom(p[i]) }
\* The first stages of the maximal runs of native stages.
NativeRunStarts(p) ==
  { i \in 1..Len(p) : ~IsCustom(p[i]) /\ (i = 1 \/ IsCustom(p[i - 1])) }
ModeSwitches(p) == { i \in 1..(Len(p) - 1) : IsCustom(p[i]) # IsCustom(p[i + 1]) }
CustomAfterCustom(p) == { i \in 2..Len(p) : IsCustom(p[i - 1]) /\ IsCustom(p[i]) }

\* The log entries by which call c got a new checkpoint.
NativeRunsOf(c) == { i \in EntriesOf(c) : log[i].op = "aggregate" /\ log[i].ok }
CustomOutputsOf(c) ==
  { i \in EntriesOf(c) : (log[i].op = "insert_many" /\ log[i].ok) \/ log[i].op = "skip_insert" }
CheckpointsOf(c) == NativeRunsOf(c) \cup CustomOutputsOf(c)

\* C6 as claimed: a pipeline without custom stages is delegated in exactly one
\* native run on the source collection, stages in order, whose output is
\* what the call returns; nothing else is created.
C6_OneNativeRun ==
  \A c \in Calls :
    (call[c].pc = "returned" /\ CustomStages(call[c].pipeline) = {}) =>
      /\ CustomOutputsOf(c) = {}
      /\ \E i \in EntriesOf(c) :
           /\ NativeRunsOf(c) = {i}
           /\ log[i].coll = Source
           /\ log[i].stages = call[c].pipeline
           /\ call[c].results = log[i].docs

\* C6 amended: so it is for every non-empty pipeline without custom stages;
\* for the empty pipeline no native run is made and the documents of the
\* source collection are returned. No failed call of such a pipeline made
\* more than its one run either.
C6_OneNativeRunUnlessEmpty ==
  \A c \in Calls :
    (call[c].pc # "idle" /\ CustomStages(call[c].pipeline) = {}) =>
      /\ CustomOutputsOf(c) = {}
      /\ Cardinality({ i \in EntriesOf(c) : log[i].op = "aggregate" }) <= 1
      /\ call[c].pc = "returned" =>
           IF call[c].pipeline = <<>>
             THEN /\ NativeRunsOf(c) = {}
                  /\ call[c].results = Dataset
             ELSE \E i \in EntriesOf(c) :
                    /\ NativeRunsOf(c) = {i}
                    /\ log[i].coll = Source
                    /\ log[i].stages = call[c].pipeline
                    /\ call[c].results = log[i].docs

\* A returned call of two different native stages whose run kept only part of
\* the source documents.
C6_Witness ==
  \E c \in Calls :
    /\ call[c].pc = "returned"
    /\ CustomStages(call[c].pipeline) = {}
    /\ Len(call[c].pipeline) >= 2
    /\ call[c].pipeline[1] # call[c].pipeline[2]
    /\ Len(call[c].results) = 1

\* C7 as claimed: a successful call creates as many checkpoints as the
\* pipeline has switches between native and custom processing.
C7_CheckpointsAreModeSwitches ==
  \A c \in Calls :
    call[c].pc = "returned" =>
      Cardinality(CheckpointsOf(c)) = Cardinality(ModeSwitches(call[c].pipeline))

\* C7 amended: for a non-empty pipeline a successful call creates one
\* checkpoint more than there are mode switches, plus one for every custom
\* stage that directly follows a custom stage; none for the empty pipeline.
C7_CheckpointsFromModeSwitches ==
  \A c \in Calls :
    call[c].pc = "returned" =>
      Cardinality(CheckpointsOf(c)) =
        IF call[c].pipeline = <<>> THEN 0
        ELSE Cardinality(ModeSwitches(call[c].pipeline)) + 1
             + Cardinality(CustomAfterCustom(call[c].pipeline))

\* A returned call whose pipeline switches mode and has two custom stages in
\* a row.
C7_Witness ==
  \E c \in Calls :
    /\ call[c].pc = "returned"
    /\ ModeSwitches(call[c].pipeline) # {}
    /\ CustomAfterCustom(call[c].pipeline) # {}

\* C8: a successful call creates one checkpoint per maximal run of native
\* stages and one per custom stage, and tracks exactly those.
C8_CheckpointPerRunAndCustomStage ==
  \A c \in Calls :
    call[c].pc = "returned" =>
      /\ Cardinality(NativeRunsOf(c)) = Cardinality(NativeRunStarts(call[c].pipeline))
      /\ Cardinality(CustomOutputsOf(c)) = Cardinality(CustomStages(call[c].pipeline))
      /\ Len(call[c].temp_collections) =
           Cardinality(NativeRunStarts(call[c].pipeline))
           + Cardinality(CustomStages(call[c].pipeline))

\* A returned call with two native runs around a custom stage.
C8_Witness ==
  \E c \in Calls :
    /\ call[c].pc = "returned"
    /\ Cardinality(NativeRunStarts(call[c].pipeline)) = 2
    /\ CustomStages(call[c].pipeline) # {}
    /\ call[c].results # <<>>

\* The log of call c replayed from entry i on: `cur` is the collection the
\* last step produced and `docs` its documents, `seen` the collections so far.
RECURSIVE ChainFrom(_, _, _, _, _)
ChainFrom(c, i, cur, docs, seen) ==
  IF i > Len(log) THEN TRUE
  ELSE LET e == log[i] IN
    IF e.c # c THEN ChainFrom(c, i + 1, cur, docs, seen)
    ELSE IF e.op = "aggregate" THEN
      /\ e.coll = cur
      /\ IF e.ok THEN e.out \notin seen
                      /\ ChainFrom(c, i + 1, e.out, e.docs, seen \cup {e.out})
         ELSE ChainFrom(c, i + 1, cur, docs, seen)
    ELSE IF e.op = "find" THEN
      /\ e.coll = cur
      /\ e.ok => e.docs = docs
      /\ ChainFrom(c, i + 1, cur, docs, seen)
    ELSE IF e.op = "insert_many" /\ e.ok THEN
      /\ e.coll \notin seen
      /\ ChainFrom(c, i + 1, e.coll, e.docs, seen \cup {e.coll})
    ELSE IF e.op = "skip_insert" THEN
      /\ e.coll \notin seen
      /\ ChainFrom(c, i + 1, e.coll, <<>>, seen \cup {e.coll})
    ELSE ChainFrom(c, i + 1, cur, docs, seen)

\* C9: every native run and every read (a custom stage's, the final one) takes
\* the collection, and finds the documents, that the step just before it
\* produced (the source collection's at the start); every checkpoint is a new
\* collection; the result is what the final read found in the last one.
C9_CheckpointChain ==
  \A c \in Calls :
    /\ ChainFrom(c, 1, Source, Dataset, {Source})
    /\ call[c].pc = "returned" =>
         \E i \in EntriesOf(c) :
           /\ log[i].op = "find"
           /\ \A j \in CheckpointsOf(c) : j < i
           /\ call[c].results = log[i].docs

\* A returned call with a chain of three checkpoints and a non-empty result.
C9_Witness ==
  \E c \in Calls :
    /\ call[c].pc = "returned"
    /\ Cardinality(CheckpointsOf(c)) = 3
    /\ NativeRunsOf(c) # {}
    /\ CustomOutputsOf(c) # {}
    /\ call[c].results # <<>>

\* ------------------------------------------------- claims on the registry
\* C11: add_custom_operator with a name that does not start with '$' fails
\* and leaves the registry exactly as it was; with a name that starts with '$'
\* it succeeds, the name then looks up to the handler just given, whatever
\* was stored under it before, and no other entry changes.
C11_RegisterValidates ==
  \A i \in 1..Len(log) :
    log[i].op = "add_custom_operator" =>
      IF log[i].name # <<>> /\ log[i].name[1] = "$"
        THEN /\ log[i].ok
             /\ lookup(RegAfter(i), log[i].name) = log[i].func
             /\ DOMAIN RegAfter(i) = DOMAIN log[i].before \cup {log[i].name}
             /\ \A n \in DOMAIN log[i].before \ {log[i].name} :
                  RegAfter(i)[n] = log[i].before[n]
        ELSE /\ ~log[i].ok
             /\ log[i].err = "ValueError"
             /\ RegAfter(i) = log[i].before

\* A registration that replaced a different handler, after a rejected one.
C11_Witness ==
  \E i, j \in 1..Len(log) :
    /\ i < j
    /\ log[i].op = "add_custom_operator" /\ ~log[i].ok
    /\ log[j].op = "add_custom_operator" /\ log[j].ok
    /\ log[j].name \in DOMAIN log[j].before
    /\ log[j].before[log[j].name] # log[j].func
    /\ Cardinality(DOMAIN log[j].before) > 1

\* C12: remove_custom_operator never fails; an absent name leaves the registry
\* unchanged, a present name loses its entry and nothing else changes; a
\* second removal of the same name right after the first changes nothing.
C12_UnregisterIdempotent ==
  \A i \in 1..Len(log) :
    log[i].op = "remove_custom_operator" =>
      /\ log[i].ok
      /\ log[i].name \notin DOMAIN log[i].before => RegAfter(i) = log[i].before
      /\ DOMAIN RegAfter(i) = DOMAIN log[i].before \ {log[i].name}
      /\ \A n \in DOMAIN RegAfter(i) : RegAfter(i)[n] = log[i].before[n]
      /\ (i > 1 /\ log[i - 1].op = "remove_custom_operator"
                /\ log[i - 1].name = log[i].name) => RegAfter(i) = log[i].before

\* A registered name removed twice in a row, another entry staying.
C12_Witness ==
  \E i \in 2..Len(log) :
    /\ log[i].op = "remove_custom_operator"
    /\ log[i - 1].op = "remove_custom_operator"
    /\ log[i - 1].name = log[i].name
    /\ log[i].name \in DOMAIN log[i - 1].before
    /\ custom_operators # <<>>

\* ------------------------------------------- claims on the local evaluator
\* The value the d-th output document holds under the field s.
EvOut(d) == dict_at(ev_result.out.val[d], FieldS)
\* A single-key mapping whose key is registered to the handler h.
IsCallOf(e, h) ==
  /\ e.t = "dict"
  /\ Len(e.v) = 1
  /\ e.v[1][1] \in DOMAIN custom_operators
  /\ custom_operators[e.v[1][1]] = h

\* C18: a single-key mapping {op: arg} with op registered evaluates to what
\* the handler returns for (document, arg), arg being the pipeline's own
\* expression with no field reference resolved and no nested operator
\* evaluated; this holds at the top of a projected field, under a plain key,
\* in a list and in a built-in operator's argument, and also when op carries
\* the name of a built-in.
C18_HandlerGetsRawArgument ==
  ev_pc = "done" =>
    /\ IsCallOf(ev_expr, "echo_operator") =>
         /\ ev_result.out.ok
         /\ \A d \in 1..Len(ev_docs) : EvOut(d) = VList(<<ev_docs[d], ev_expr.v[1][2]>>)
    /\ IsCallOf(ev_expr, "prompt_operator") =>
         /\ ev_result.out.ok =>
              \A d \in 1..Len(ev_docs) :
                Ok(EvOut(d)) = prompt_operator(ev_docs[d], ev_expr.v[1][2], ev_result.reply)
         /\ ~ev_result.out.ok =>
              \E d \in 1..Len(ev_docs) :
                prompt_operator(ev_docs[d], ev_expr.v[1][2], ev_result.reply)
                  = Raise(ev_result.out.err)
    /\ (ev_expr.t = "dict" /\ Len(ev_expr.v) = 1 /\ IsCallOf(ev_expr.v[1][2], "echo_operator")) =>
         LET key == ev_expr.v[1][1]
             inner == ev_expr.v[1][2].v[1][2]
         IN /\ key = FieldX =>
                 /\ ev_result.out.ok
                 /\ \A d \in 1..Len(ev_docs) :
                      EvOut(d) = VDict(<< <<key, VList(<<ev_docs[d], inner>>)>> >>)
            /\ (key = OpConcat /\ key \notin DOMAIN custom_operators) =>
                 /\ ev_result.out.ok
                 /\ \A d \in 1..Len(ev_docs) :
                      EvOut(d) = VStr(py_str(ev_docs[d]) \o py_str(inner))
    /\ (ev_expr.t = "list" /\ IsCallOf(ev_expr.v[Len(ev_expr.v)], "echo_operator")) =>
         /\ ev_result.out.ok
         /\ \A d \in 1..Len(ev_docs) :
              EvOut(d).v[Len(ev_expr.v)]
                = VList(<<ev_docs[d], ev_expr.v[Len(ev_expr.v)].v[1][2]>>)

\* A handler registered as $concat was called with a field reference as its
\* argument and got the reference, not the field's value.
C18_Witness ==
  /\ ev_pc = "done"
  /\ IsCallOf(ev_expr, "echo_operator")
  /\ ev_expr.v[1][1] = OpConcat
  /\ ev_expr.v[1][2] = VStr(<<"$", "c">>)
  /\ ev_docs[1] = EvDocFull
  /\ EvOut(1) = VList(<<EvDocFull, VStr(<<"$", "c">>)>>)

\* The operator names evaluate_operator implements.
BuiltIns == {OpConcat, OpStrLenCP, OpToUpper, OpToLower, OpSubstr}
UnknownName(key) ==
  StartsWithDollar(key) /\ key \notin DOMAIN custom_operators /\ key \notin BuiltIns

\* The unknown '$' names that are keys anywhere in the tree, the arguments of
\* registered operators left aside.
RECURSIVE UnknownKeys(_)
UnknownKeys(e) ==
  IF e.t = "dict"
    THEN UNION { (IF UnknownName(e.v[i][1]) THEN {e.v[i][1]} ELSE {})
                 \cup (IF e.v[i][1] \in DOMAIN custom_operators THEN {}
                       ELSE UnknownKeys(e.v[i][2])) : i \in 1..Len(e.v) }
  ELSE IF e.t = "list" THEN UNION { UnknownKeys(e.v[i]) : i \in 1..Len(e.v) }
  ELSE {}

\* The unknown '$' names that are the only key of a mapping the evaluator
\* comes to: not below a registered operator called as a handler, and not
\* below another unknown operator.
RECURSIVE UnknownDispatched(_)
UnknownDispatched(e) ==
  IF e.t = "dict" THEN
    IF Len(e.v) = 1 THEN
      IF e.v[1][1] \in DOMAIN custom_operators THEN {}
      ELSE IF UnknownName(e.v[1][1]) THEN {e.v[1][1]}
      ELSE UnknownDispatched(e.v[1][2])
    ELSE UNION { UnknownDispatched(e.v[i][2]) : i \in 1..Len(e.v) }
  ELSE IF e.t = "list" THEN UNION { UnknownDispatched(e.v[i]) : i \in 1..Len(e.v) }
  ELSE {}

\* C19 as stated: an unknown '$' key anywhere in the evaluated tree, in a
\* single-key or in a multi-key mapping, makes the evaluation fail with the
\* unknown-operator error.
C19_UnknownKeyFails ==
  (ev_pc = "done" /\ UnknownKeys(ev_expr) # {}) =>
    /\ ~ev_result.out.ok
    /\ ev_result.out.err = "NotImplementedError"

\* C19 amended: an unknown '$' name that is the only key of a mapping the
\* evaluator comes to makes the evaluation of the stage fail; the error is the
\* unknown-operator error when that mapping is the projected expression
\* itself, and the unknown-operator error is raised for no other reason. A
\* '$' key of a multi-key mapping is not dispatched: when the values evaluate,
\* the key is kept in the result.
C19_UnknownOperatorFails ==
  ev_pc = "done" =>
    /\ UnknownDispatched(ev_expr) # {} => ~ev_result.out.ok
    /\ (ev_expr.t = "dict" /\ Len(ev_expr.v) = 1 /\ UnknownName(ev_expr.v[1][1])) =>
         ev_result.out = Raise("NotImplementedError")
    /\ ev_result.out = Raise("NotImplementedError") => UnknownDispatched(ev_expr) # {}
    /\ (ev_expr.t = "dict" /\ Len(ev_expr.v) > 1 /\ ev_result.out.ok) =>
         \A d \in 1..Len(ev_docs) :
           /\ EvOut(d).t = "dict"
           /\ [i \in 1..Len(ev_expr.v) |-> ev_expr.v[i][1]]
                = [i \in 1..Len(EvOut(d).v) |-> EvOut(d).v[i][1]]

\* An unknown operator met in the argument of a built-in operator ended the
\* evaluation with the unknown-operator error.
C19_Witness ==
  /\ ev_pc = "done"
  /\ ev_expr.t = "dict" /\ Len(ev_expr.v) = 1
  /\ ev_expr.v[1][1] = OpConcat
  /\ OpConcat \notin DOMAIN custom_operators
  /\ ev_expr.v[1][2].t = "dict" /\ Len(ev_expr.v[1][2].v) = 1
  /\ ev_expr.v[1][2].v[1][1] = OpFoo
  /\ ev_result.out = Raise("NotImplementedError")

\* ------------------------------------------- claims on projection stages
\* The fields of the projection whose expression is the inclusion marker.
Included == { i \in 1..Len(ev_expr.v) : IsInt(ev_expr.v[i][2]) /\ ev_expr.v[i][2].v = 1 }
\* The fields of the projection whose expression is the exclusion marker.
Excluded == { i \in 1..Len(ev_expr.v) : IsInt(ev_expr.v[i][2]) /\ ev_expr.v[i][2].v = 0 }
KeysOf(d) == { d.v[i][1] : i \in 1..Len(d.v) }

\* C13: for every input document and every field whose expression is the
\* inclusion marker (1 or True), the output document holds the input's value
\* under that key when the input has the field, and has no such key when the
\* input lacks it.
C13_InclusionCopiesOrOmits ==
  (ev_pc = "done" /\ ev_result.out.ok) =>
    \A d \in 1..Len(ev_docs) : \A i \in Included :
      LET key == ev_expr.v[i][1] IN
      IF dict_has(ev_docs[d], key)
        THEN /\ dict_has(ev_result.out.val[d], key)
             /\ dict_at(ev_result.out.val[d], key) = dict_at(ev_docs[d], key)
        ELSE ~dict_has(ev_result.out.val[d], key)

\* C14: every output document of a locally executed stage has the _id of the
\* input document it was computed from, whether the stage names _id or not.
C14_IdentityPreserved ==
  (ev_pc = "done" /\ ev_result.out.ok) =>
    \A d \in 1..Len(ev_docs) :
      /\ dict_has(ev_result.out.val[d], FieldId)
      /\ dict_at(ev_result.out.val[d], FieldId) = dict_at(ev_docs[d], FieldId)

\* C20: an $addFields stage yields exactly what the $project stage with the
\* same expression yields: one output document per input document, holding
\* the keys the expression names without the excluded ones and no other, so
\* an input field the stage does not name is not in the output.
C20_AddFieldsIsProject ==
  (ev_pc = "done" /\ ev_stage.v[1][1] = OpAddFields) =>
    /\ ev_result.out =
         process_custom_stage(ev_docs, VDict(<< <<OpProject, ev_expr>> >>), custom_operators,
                              [d \in 1..Len(ev_docs) |-> ev_result.reply])
    /\ ev_result.out.ok =>
         /\ Len(ev_result.out.val) = Len(ev_docs)
         /\ \A d \in 1..Len(ev_docs) :
              KeysOf(ev_result.out.val[d])
                = { ev_expr.v[i][1] : i \in (1..Len(ev_expr.v)) \ Excluded }

\* An $addFields stage that names s only was evaluated over a document that
\* has the fields _id and c: the output has the key s alone.
C20_Witness ==
  /\ ev_pc = "done"
  /\ ev_stage.v[1][1] = OpAddFields
  /\ ev_result.out.ok
  /\ KeysOf(ev_expr) = {FieldS}
  /\ ev_docs[1] = EvDocFull
  /\ KeysOf(ev_result.out.val[1]) = {FieldS}

\* ------------------------------------- claims on failing stages of a call
\* A stage that holds a registered operator under a stage operator other than
\* $project and $addFields.
Unsupported(stage) == IsCustom(stage) /\ stage.v[1][1] \notin {OpProject, OpAddFields}

\* C15: a call whose pipeline holds an unsupported custom stage never returns
\* a result; when the stage is reached its evaluation raises
\* NotImplementedError, which is the error the call raises, nothing is
\* written for the stage or after it, and the cleanup loop drops every
\* checkpoint the call created before, the native run flushed just before the
\* stage included: when no drop fails only the source collection is left.
C15_UnsupportedStageAborts ==
  \A c \in Calls :
    /\ (\E n \in 1..Len(call[c].pipeline) : Unsupported(call[c].pipeline[n])) =>
         /\ call[c].pc # "returned"
         /\ call[c].results = <<>>
    /\ \A i \in EntriesOf(c) :
         (log[i].op = "process_custom_stage" /\ Unsupported(log[i].stage)) =>
           /\ ~log[i].ok
           /\ log[i].err = "NotImplementedError"
           /\ call[c].exc = "NotImplementedError"
           /\ \A j \in EntriesOf(c) : j > i => log[j].op = "drop"
           /\ Finished(c) =>
                /\ call[c].pc = "raised"
                /\ Materialised(c) \subseteq Range(DropsOf(c))
                /\ \A j \in EntriesOf(c) :
                     (log[j].op = "drop" /\ log[j].ok) => log[j].coll \notin DOMAIN db
                /\ ~DropFailed(c) => DOMAIN db = {Source}

\* A call that raised NotImplementedError at a $group stage holding $prompt,
\* after a native run and a custom stage had each left a checkpoint, both
\* dropped.
C15_Witness ==
  \E c \in Calls :
    /\ call[c].pc = "raised"
    /\ call[c].exc = "NotImplementedError"
    /\ \E i \in EntriesOf(c) : log[i].op = "aggregate" /\ log[i].ok
    /\ \E i \in EntriesOf(c) : log[i].op = "insert_many" /\ log[i].ok
    /\ Cardinality(Materialised(c)) = Len(DropsOf(c))
    /\ DOMAIN db = {Source}

\* A stage that projects a field through a $substr with too few or too many
\* arguments.
BadSubstr(stage) == server_rejects(stage)

NamesOf(c) ==
  { log[i].out : i \in { j \in EntriesOf(c) : log[j].op = "aggregate" } }
  \cup { log[i].coll : i \in { j \in EntriesOf(c) : log[j].op \in {"insert_many", "skip_insert"} } }
\* A document without the _id that insert_many put in front of it.
WithoutOid(doc) ==
  IF doc.v # <<>> /\ doc.v[1][1] = FieldId /\ doc.v[1][2].t = "oid" THEN VDict(Tail(doc.v))
  ELSE doc

\* C17: when the steps of two aggregate calls interleave, each call reads the
\* source collection or a collection it has named itself, writes and drops
\* only collections it has named itself, and no name belongs to both calls;
\* every read of a call finds the documents its own previous step produced,
\* and the result it returns is what its final read found in its last
\* checkpoint: for the pipeline of the single custom stage, the documents the
\* stage yields over the source collection, as in a call running alone.
C17_CallsAreIsolated ==
  /\ NamesOf(1) \cap NamesOf(2) = {}
  /\ \A c \in TwoCalls :
       /\ Source \notin NamesOf(c)
       /\ Range(call[c].temp_collections) \subseteq NamesOf(c)
       /\ \A i \in EntriesOf(c) :
            /\ log[i].op \in {"aggregate", "find"} => log[i].coll \in {Source} \cup NamesOf(c)
            /\ log[i].op = "drop" => log[i].coll \in NamesOf(c)
       /\ ChainFrom(c, 1, Source, Dataset, {Source})
       /\ call[c].pc = "returned" =>
            /\ \E i \in EntriesOf(c) :
                 /\ log[i].op = "find"
                 /\ \A j \in CheckpointsOf(c) : j < i
                 /\ call[c].results = log[i].docs
            /\ call[c].pipeline = <<StagePrompt>> =>
                 \E reply \in Responses :
                   Ok([d \in 1..Len(call[c].results) |-> WithoutOid(call[c].results[d])])
                     = process_custom_stage(Dataset, StagePrompt, custom_operators,
                                            [d \in 1..Len(Dataset) |-> reply])

\* Both calls returned a non-empty result, the second having written its
\* checkpoint between the first call's write and the first call's final read.
C17_Witness ==
  /\ call[1].pc = "returned" /\ call[2].pc = "returned"
  /\ call[1].results # <<>> /\ call[2].results # <<>>
  /\ \E i, j, k \in 1..Len(log) :
       /\ i < j /\ j < k
       /\ log[i].c = 1 /\ log[i].op = "insert_many"
       /\ log[j].c = 2 /\ log[j].op \in {"insert_many", "aggregate"} /\ log[j].ok
       /\ log[k].c = 1 /\ log[k].op = "find"

\* ------------------------------------------- claims on the order of steps
\* The steps of call c other than the drops of its cleanup loop.
StepsOf(c) == { i \in EntriesOf(c) : log[i].op # "drop" }

\* C21: a call drops nothing while it is processing: every drop comes after
\* the call's last step, which is the final read that gave the result or the
\* step that failed; no native run and no read uses a collection the call has
\* dropped, and until the cleanup loop starts every collection the call has
\* created is still in the database.
C21_DropsComeLast ==
  \A c \in Calls :
    /\ \A i \in EntriesOf(c) :
         log[i].op = "drop" =>
           /\ \A j \in StepsOf(c) : j < i
           /\ \E last \in StepsOf(c) :
                /\ \A j \in StepsOf(c) : j <= last
                /\ \/ ~log[last].ok
                   \/ /\ log[last].op = "find"
                      /\ \A j \in CheckpointsOf(c) : j < last
                      /\ call[c].results = log[last].docs
    /\ \A i \in StepsOf(c) :
         log[i].op \in {"find", "aggregate"} =>
           ~\E j \in EntriesOf(c) : j < i /\ log[j].op = "drop" /\ log[j].coll = log[i].coll
    /\ call[c].pc \notin {"cleanup", "returned", "raised"} =>
         /\ DropsOf(c) = <<>>
         /\ Materialised(c) \subseteq DOMAIN db

\* A call that returned a non-empty result read from its third checkpoint and
\* then dropped all three.
C21_Witness ==
  \E c \in Calls :
    /\ call[c].pc = "returned"
    /\ call[c].results # <<>>
    /\ Len(DropsOf(c)) = 3
    /\ DOMAIN db = {Source}

\* The stages call c has handed on so far, in the order of the log: the
\* stages of each native run it submitted and the stage of each local
\* evaluation, among the first n entries.
RECURSIVE ProcessedUpTo(_, _)
ProcessedUpTo(c, n) ==
  IF n = 0 THEN <<>>
  ELSE LET e    == log[n]
           rest == ProcessedUpTo(c, n - 1)
       IN  IF e.c # c THEN rest
           ELSE IF e.op = "aggregate" THEN rest \o e.stages
           ELSE IF e.op = "process_custom_stage" THEN Append(rest, e.stage)
           ELSE rest
Processed(c) == ProcessedUpTo(c, Len(log))
IsPrefix(s, t) == Len(s) <= Len(t) /\ s = SubSeq(t, 1, Len(s))
LocalRunsOf(c) == { i \in EntriesOf(c) : log[i].op = "process_custom_stage" }

\* What C22 says of the stages, whatever the buffer holds: the stages handed
\* on are at every moment a prefix of the pipeline and, once the call has
\* returned, the whole pipeline; a native run is non-empty and holds native
\* stages only, a local evaluation is of a custom stage, and there are as many
\* local evaluations as custom stages.
EachStageOnceInOrder(c) ==
  /\ IsPrefix(Processed(c), call[c].pipeline)
  /\ \A i \in EntriesOf(c) :
       /\ log[i].op = "aggregate" =>
            /\ log[i].stages # <<>>
            /\ \A n \in 1..Len(log[i].stages) : ~IsCustom(log[i].stages[n])
       /\ log[i].op = "process_custom_stage" => IsCustom(log[i].stage)
  /\ call[c].pc = "returned" =>
       /\ Processed(c) = call[c].pipeline
       /\ Cardinality(LocalRunsOf(c)) = Cardinality(CustomStages(call[c].pipeline))

\* C22 as claimed: every stage is processed exactly once and in pipeline
\* order, no native run spans a custom stage, and after each flush, the one
\* before a custom stage and the one at the end of the pipeline, the
\* native-run buffer is empty.
C22_OnceInOrderBufferEmptied ==
  \A c \in Calls :
    /\ EachStageOnceInOrder(c)
    /\ call[c].pc \in {"find", "final_find", "cleanup", "returned"} =>
         call[c].sub_pipeline = <<>>

\* C22 amended: every stage is processed exactly once and in pipeline order
\* and no native run spans a custom stage; the buffer is empty after each
\* flush made before a custom stage, while the flush at the end of the
\* pipeline leaves in the buffer the run it has just submitted, which nothing
\* reads again.
C22_OnceInOrder ==
  \A c \in Calls :
    /\ EachStageOnceInOrder(c)
    /\ call[c].pc = "find" => call[c].sub_pipeline = <<>>
    /\ call[c].pc \in {"final_find", "returned"} =>
         \/ call[c].sub_pipeline = <<>>
         \/ \E i \in NativeRunsOf(c) :
              /\ \A j \in StepsOf(c) : log[j].op = "aggregate" => j <= i
              /\ call[c].sub_pipeline = log[i].stages

\* A returned call whose pipeline has a native, a custom and a native stage:
\* two native runs of one stage each around one local evaluation, the last
\* run still in the buffer.
C22_Witness ==
  \E c \in Calls :
    /\ call[c].pc = "returned"
    /\ Len(call[c].pipeline) = 3
    /\ CustomStages(call[c].pipeline) = {2}
    /\ Cardinality(NativeRunsOf(c)) = 2
    /\ call[c].sub_pipeline = <<call[c].pipeline[3]>>

\* ------------------------------------- claims on detector and evaluator
RECURSIVE SumSeq(_)
SumSeq(s) == IF s = <<>> THEN 0 ELSE Head(s) + SumSeq(Tail(s))

\* How often k is a mapping key in the tree: what the detector can find.
RECURSIVE Occurrences(_, _)
Occurrences(e, k) ==
  IF e.t = "dict"
    THEN SumSeq([i \in 1..Len(e.v) |->
                   (IF e.v[i][1] = k THEN 1 ELSE 0) + Occurrences(e.v[i][2], k)])
  ELSE IF e.t = "list" THEN SumSeq([i \in 1..Len(e.v) |-> Occurrences(e.v[i], k)])
  ELSE 0

\* How often k is the only key of a mapping that is reached from the top
\* through plain single keys, arguments of built-in operators, values of
\* multi-key mappings and list elements.
RECURSIVE Dispatched(_, _)
Dispatched(e, k) ==
  IF e.t = "dict" THEN
    IF Len(e.v) = 1 THEN
      IF e.v[1][1] \in DOMAIN custom_operators THEN (IF e.v[1][1] = k THEN 1 ELSE 0)
      ELSE IF UnknownName(e.v[1][1]) THEN 0
      ELSE Dispatched(e.v[1][2], k)
    ELSE SumSeq([i \in 1..Len(e.v) |-> Dispatched(e.v[i][2], k)])
  ELSE IF e.t = "list" THEN SumSeq([i \in 1..Len(e.v) |-> Dispatched(e.v[i], k)])
  ELSE 0

\* The same over the expressions of the evaluated stage's projected fields.
DispatchedInStage(k) ==
  LET fields == ev_stage.v[1][2].v
  IN SumSeq([i \in 1..Len(fields) |-> Dispatched(fields[i][2], k)])

\* The number of calls of the handler of k made for the d-th document.
CallsOf(d, k) ==
  Cardinality({ n \in 1..Len(ev_result.calls[d]) : ev_result.calls[d][n][1] = k })

\* C23 as claimed: when a stage the detector finds custom has been evaluated,
\* the handler of each registered name was called, for each document, once
\* for every place of the stage where the name is a key, the keys of
\* multi-key mappings and the keys inside the argument of another registered
\* operator included.
C23_EveryDetectedKeyInvoked ==
  (ev_pc = "done" /\ ev_result.out.ok) =>
    /\ Len(ev_result.calls) = Len(ev_docs)
    /\ \A d \in 1..Len(ev_docs), k \in DOMAIN custom_operators :
         CallsOf(d, k) >= Occurrences(ev_stage, k)

\* C23 amended: the handlers called are registered names that are keys of the
\* stage, and for each document the handler of a registered name is called
\* once for every mapping that has the name as its only key and is reached
\* through plain keys, arguments of built-in operators, values of multi-key
\* mappings and list elements: at most so often when the evaluation fails,
\* exactly so often when it succeeds. That is never more than the detector
\* finds, and it is less when the name is a key of a multi-key mapping or
\* lies in the argument of another registered operator.
C23_EveryDispatchedKeyInvoked ==
  ev_pc = "done" =>
    /\ contains_custom_operator(ev_stage, custom_operators)
    /\ Len(ev_result.calls) <= Len(ev_docs)
    /\ ev_result.out.ok => Len(ev_result.calls) = Len(ev_docs)
    /\ \A d \in 1..Len(ev_result.calls) :
         /\ \A n \in 1..Len(ev_result.calls[d]) :
              ev_result.calls[d][n][1] \in DOMAIN custom_operators \cap AllKeys(ev_stage)
         /\ \A k \in DOMAIN custom_operators :
              /\ CallsOf(d, k) <= DispatchedInStage(k)
              /\ ev_result.out.ok => CallsOf(d, k) = DispatchedInStage(k)
    /\ \A k \in DOMAIN custom_operators :
         /\ DispatchedInStage(k) <= Occurrences(ev_stage, k)
         /\ (ev_expr.t = "dict" /\ Len(ev_expr.v) > 1) =>
              DispatchedInStage(k) < Occurrences(ev_stage, k)
                \/ k \notin { ev_expr.v[i][1] : i \in 1..Len(ev_expr.v) }

\* A registered operator in the argument of a built-in operator: the stage
\* was found custom and for the first document the handler was called for that
\* key and then for the key of the second projected field.
C23_Witness ==
  /\ ev_pc = "done"
  /\ ev_result.out.ok
  /\ ev_expr = VDict(<< <<OpConcat, VDict(<< <<OpPrompt, VStr(<<"$", "c">>)>> >>)>> >>)
  /\ OpConcat \notin DOMAIN custom_operators
  /\ ev_result.calls[1] = << <<OpPrompt, VStr(<<"$", "c">>)>>, <<OpPrompt, PromptArgs>> >>
  /\ Occurrences(ev_stage, OpPrompt) = 2

====
